---- MODULE Spec2Model ----
(***************************************************************************)
(* A model of led_controller.py: the Strip frame buffer, the               *)
(* WS2812SpiDriver bitstream encoder over an SPI handle, the white_rotate  *)
(* and white_breathing effects and the demonstration sequence main().      *)
(*                                                                         *)
(* Numbers: a brightness is a rational <<num, den>> with den > 0 (reduced),*)
(* a float of the program whose products with a channel value are taken    *)
(* exactly; a colour channel and a byte are integers in 0..255.            *)
(***************************************************************************)
EXTENDS Integers, Sequences, FiniteSets, TLC

VARIABLES
    led_count,      \* WS2812SpiDriver._led_count, copied to Strip._led_count
    pixels,         \* Strip._pixels: a sequence of colours [r, g, b]
    brightness,     \* Strip._brightness
    drv_buffer,     \* WS2812SpiDriver._buffer
    clear_buffer,   \* WS2812SpiDriver._clear_buffer
    dev,            \* the SpiDev handle: [state, closes]
    last,           \* the last call made on the Strip or the driver, and how it ended
    pc,             \* position of the running procedure (effect or main)
    phase,          \* main(): the number of the effect in progress
    pattern,        \* white_rotate: the rotating pattern
    iter,           \* white_rotate: iterations left; white_breathing: cycles left
    idx,            \* white_rotate: the pixel index of the inner loop
    step,           \* white_breathing: the step of the ramp in progress
    ramp,           \* white_breathing: "up", "down" or "restore"
    shows,          \* number of Strip.show() calls made by the running effect
    orig            \* white_breathing: original_brightness

vars == <<led_count, pixels, brightness, drv_buffer, clear_buffer, dev, last,
          pc, phase, pattern, iter, idx, step, ramp, shows, orig>>

stripVars == <<pixels, brightness>>
driverVars == <<drv_buffer, clear_buffer, dev>>
procVars == <<pc, phase, pattern, iter, idx, step, ramp, shows, orig>>

----------------------------------------------------------------------------
(* Bounds of the model. *)

\* The Strip and driver interface is exercised with led_count in 0..MaxLeds.
MaxLeds == 2
\* Strip.show is applied to every pixel buffer of 0..ShowLeds pixels.
ShowLeds == 3
\* white_rotate on its own runs with led_count in 0..RotLeds.
RotLeds == 4

----------------------------------------------------------------------------
(* Program constants. *)

LED_ZERO == 192
LED_ONE == 252
PREAMBLE == 42
MAIN_LED_COUNT == 24
BREATH_CYCLES == 3
BREATH_STEPS == 50

----------------------------------------------------------------------------
(* Numbers and colours. *)

RECURSIVE Gcd(_, _)
Gcd(a, b) == IF b = 0 THEN a ELSE Gcd(b, a % b)

Abs(x) == IF x < 0 THEN -x ELSE x

\* The rational n / d, d > 0, in lowest terms.
Rat(n, d) == LET g == Gcd(Abs(n), d) IN <<n \div g, d \div g>>

RatLess(x, y) == x[1] * y[2] < y[1] * x[2]

RatOne == <<1, 1>>
RatZero == <<0, 1>>

Color(r, g, b) == [r |-> r, g |-> g, b |-> b]

Black == Color(0, 0, 0)
White == Color(255, 255, 255)

\* Python's min(a, b) and max(a, b): the first argument unless the second is
\* strictly smaller (larger).
PyMin(a, b) == IF RatLess(b, a) THEN b ELSE a
PyMax(a, b) == IF RatLess(a, b) THEN b ELSE a

\* channel * brightness cast to uint8 by np.array(..., dtype=np.uint8):
\* the fraction is dropped (truncation toward zero).
ScaleToUint8(channel, bright) ==
    LET num == channel * bright[1]
    IN  IF num >= 0 THEN num \div bright[2] ELSE -((-num) \div bright[2])

\* list[i] of Python: indices -len .. len-1 are valid, a negative one counts
\* from the end.
PyIndexValid(i, len) == -len <= i /\ i < len
PyIndexPos(i, len) == IF i < 0 THEN len + i + 1 ELSE i + 1

----------------------------------------------------------------------------
(* numpy helpers of WS2812SpiDriver. *)

RECURSIVE Ravel(_)
\* ndarray.ravel(): the rows laid end to end.
Ravel(rows) == IF rows = <<>> THEN <<>> ELSE Head(rows) \o Ravel(Tail(rows))

\* Fault variant of BitOf: the bits taken least significant first.
BitOfLsbFirst(byte, k) == (byte \div (2 ^ (k - 1))) % 2

\* The bit of `byte` at position k = 1..8, most significant first.
BitOf(byte, k) == (byte \div (2 ^ (8 - k))) % 2

\* np.unpackbits on a flat uint8 array: 8 bits per byte, MSB first.
UnpackBits(bytes) ==
    [p \in 1..(8 * Len(bytes)) |-> BitOf(bytes[((p - 1) \div 8) + 1], ((p - 1) % 8) + 1)]

\* np.where(color_bits == 1, LED_ONE, LED_ZERO)
WhereSymbols(bits) == [p \in 1..Len(bits) |-> IF bits[p] = 1 THEN LED_ONE ELSE LED_ZERO]

\* np.zeros(n, dtype=np.uint8) and np.full(n, v, dtype=np.uint8)
NpZeros(n) == [p \in 1..n |-> 0]
NpFull(n, v) == [p \in 1..n |-> v]

\* Whether `buf[start:] = vals` is accepted: numpy broadcasts a value of
\* length 1 and otherwise wants the lengths equal (ValueError if not).
SliceAssignOK(buf, start, vals) ==
    Len(vals) = Len(buf) - start \/ Len(vals) = 1

\* buf after `buf[start:] = vals`.
SliceAssign(buf, start, vals) ==
    [p \in 1..Len(buf) |->
        IF p <= start THEN buf[p]
        ELSE IF Len(vals) = 1 THEN vals[1] ELSE vals[p - start]]

\* WS2812SpiDriver.__init__: the clear buffer and the transmit buffer.
InitClearBuffer(n) ==
    SliceAssign(NpZeros(PREAMBLE + n * 24), PREAMBLE, NpFull(n * 24, LED_ZERO))

InitBuffer(n) == NpZeros(PREAMBLE + n * 24)

\* Strip.__init__
InitPixels(n) == [p \in 1..n |-> Black]

----------------------------------------------------------------------------
(* The record of a call. *)

\* op: the method; args: its arguments; result: "ok" or the error raised;
\* tx: the number of SpiDev.writebytes2 calls it made; frame: the bytes it
\* handed to SpiDev.writebytes2 (<<>> if none); writes: the number of calls of
\* the driver's write it made; data: what was passed to that write (rows of
\* bytes); ret: the value returned.
Call(op, args, result, tx, frame, writes, data, ret) ==
    [op |-> op, args |-> args, result |-> result, tx |-> tx, frame |-> frame,
     writes |-> writes, data |-> data, ret |-> ret]

NoCall == Call("none", <<>>, "ok", 0, <<>>, 0, <<>>, <<>>)

\* A call that touches neither the driver nor the transport.
LocalCall(op, args, result, ret) == Call(op, args, result, 0, <<>>, 0, <<>>, ret)

\* SpiDev.writebytes2 either transmits the frame or raises.
IoOutcomes == {"ok", "TransportError"}

----------------------------------------------------------------------------
(* WS2812SpiDriver *)

\* Fault variant of DriverWrite: data of the wrong length is cut or padded
\* with zero bits to fit, and transmitted.
DriverWriteTruncating(op, args, buffer) ==
    LET symbols == WhereSymbols(UnpackBits(Ravel(buffer)))
        room == Len(drv_buffer) - PREAMBLE
        fitted == [p \in 1..room |-> IF p <= Len(symbols) THEN symbols[p] ELSE LED_ZERO]
    IN  \E io \in IoOutcomes :
        /\ drv_buffer' = SliceAssign(drv_buffer, PREAMBLE, fitted)
        /\ last' = Call(op, args, io, 1, drv_buffer', 1, buffer, <<>>)
        /\ UNCHANGED <<clear_buffer, dev>>

\* Fault variant of DriverWrite: the transmit buffer and the clear buffer
\* are one array, so a write lands in both.
DriverWriteShared(op, args, buffer) ==
    LET symbols == WhereSymbols(UnpackBits(Ravel(buffer)))
    IN  IF ~SliceAssignOK(drv_buffer, PREAMBLE, symbols)
        THEN /\ last' = Call(op, args, "ValueError", 0, <<>>, 1, buffer, <<>>)
             /\ UNCHANGED driverVars
        ELSE \E io \in IoOutcomes :
             /\ drv_buffer' = SliceAssign(drv_buffer, PREAMBLE, symbols)
             /\ clear_buffer' = drv_buffer'
             /\ last' = Call(op, args, io, 1, drv_buffer', 1, buffer, <<>>)
             /\ UNCHANGED dev

\* WS2812SpiDriver.write, as called directly (op = "write") or by
\* Strip.show (op = "show").
DriverWrite(op, args, buffer) ==
    LET flattened_colors == Ravel(buffer)
        color_bits == UnpackBits(flattened_colors)
        symbols == WhereSymbols(color_bits)
    IN  IF ~SliceAssignOK(drv_buffer, PREAMBLE, symbols)
        THEN /\ last' = Call(op, args, "ValueError", 0, <<>>, 1, buffer, <<>>)
             /\ UNCHANGED driverVars
        ELSE \E io \in IoOutcomes :
             /\ drv_buffer' = SliceAssign(drv_buffer, PREAMBLE, symbols)
             /\ last' = Call(op, args, io, 1, drv_buffer', 1, buffer, <<>>)
             /\ UNCHANGED <<clear_buffer, dev>>

\* Fault variant of DriverClear: a failed transmission is tried once more.
DriverClearRetry(op) ==
    \E io \in IoOutcomes :
        /\ last' = Call(op, <<>>, io, IF io = "ok" THEN 1 ELSE 2, clear_buffer, 0, <<>>, <<>>)
        /\ UNCHANGED driverVars

\* WS2812SpiDriver.clear, as called directly (op = "driver_clear") or by
\* Strip.clear (op = "clear").
DriverClear(op) ==
    \E io \in IoOutcomes :
        /\ last' = Call(op, <<>>, io, 1, clear_buffer, 0, <<>>, <<>>)
        /\ UNCHANGED driverVars

----------------------------------------------------------------------------
(* Strip *)

\* Strip.set_pixel_color
set_pixel_color(i, color) ==
    IF PyIndexValid(i, Len(pixels))
    THEN /\ pixels' = [pixels EXCEPT ![PyIndexPos(i, Len(pixels))] = color]
         /\ last' = LocalCall("set_pixel_color", <<i, color>>, "ok", <<>>)
         /\ UNCHANGED <<brightness, driverVars>>
    ELSE /\ last' = LocalCall("set_pixel_color", <<i, color>>, "IndexError", <<>>)
         /\ UNCHANGED <<stripVars, driverVars>>

\* Fault variant of ShowBuffer: the rows in (r, g, b) order.
ShowBufferRGB ==
    [p \in 1..Len(pixels) |->
        <<ScaleToUint8(pixels[p].r, brightness),
          ScaleToUint8(pixels[p].g, brightness),
          ScaleToUint8(pixels[p].b, brightness)>>]

\* The array Strip.show builds: one (g, r, b) row per pixel.
ShowBuffer ==
    [p \in 1..Len(pixels) |->
        <<ScaleToUint8(pixels[p].g, brightness),
          ScaleToUint8(pixels[p].r, brightness),
          ScaleToUint8(pixels[p].b, brightness)>>]

\* Strip.show
show ==
    /\ DriverWrite("show", <<>>, ShowBuffer)
    /\ UNCHANGED stripVars

\* Fault variant of clear: the zero buffer is encoded and sent through the
\* driver's write.
clearByWrite ==
    /\ pixels' = [p \in 1..led_count |-> Black]
    /\ DriverWrite("clear", <<>>, [p \in 1..led_count |-> <<0, 0, 0>>])
    /\ UNCHANGED brightness

\* Strip.clear
clear ==
    /\ pixels' = [p \in 1..led_count |-> Black]
    /\ DriverClear("clear")
    /\ UNCHANGED brightness

\* Fault variant of set_brightness: the value is stored as given.
set_brightness_unclamped(b) ==
    /\ brightness' = b
    /\ last' = LocalCall("set_brightness", <<b>>, "ok", <<>>)
    /\ UNCHANGED <<pixels, driverVars>>

\* Strip.set_brightness
set_brightness(b) ==
    /\ brightness' = PyMax(PyMin(b, RatOne), RatZero)
    /\ last' = LocalCall("set_brightness", <<b>>, "ok", <<>>)
    /\ UNCHANGED <<pixels, driverVars>>

\* Strip.num_pixels
num_pixels ==
    /\ last' = LocalCall("num_pixels", <<>>, "ok", led_count)
    /\ UNCHANGED <<stripVars, driverVars>>

\* Strip.get_brightness
get_brightness ==
    /\ last' = LocalCall("get_brightness", <<>>, "ok", brightness)
    /\ UNCHANGED <<stripVars, driverVars>>

\* Strip.set_all_pixels
set_all_pixels(color) ==
    /\ pixels' = [p \in 1..led_count |-> color]
    /\ last' = LocalCall("set_all_pixels", <<color>>, "ok", <<>>)
    /\ UNCHANGED <<brightness, driverVars>>

----------------------------------------------------------------------------
(* The interface specification: a caller makes any sequence of calls on a   *)
(* constructed driver and its Strip.                                        *)

Red == Color(255, 0, 0)
Green == Color(0, 255, 0)
Blue == Color(0, 0, 255)

\* Colours a caller sets: pure red, and one with three different channels.
Colors == {Red, Color(1, 127, 255)}

\* Indices a caller passes: 0 .. led_count - 1, one and two past the end,
\* and the negative ones down to one before -led_count.
Indices(n) == (-(n + 1))..(n + 1)

\* Brightness values a caller passes: -0.5, 0.0, 0.5, 1.0, 1.5.
BrightInputs == {<<-1, 2>>, <<0, 1>>, <<1, 2>>, <<1, 1>>, <<3, 2>>}

\* Rows handed directly to the driver's write: m rows of three bytes taken
\* in turn from ByteRows (starting at row `from`), or one row of one byte.
ByteRows == << <<1, 128, 176>>, <<0, 255, 77>> >>

RowsOf(m, from) == [j \in 1..m |-> ByteRows[((j + from) % 2) + 1]]

WriteInputs(n) ==
    {RowsOf(n, 0), RowsOf(n, 1)} \cup {RowsOf(m, 0) : m \in 0..(n + 1)} \cup {<< <<255>> >>}

OpenDev == [state |-> "open", closes |-> 0]

\* A driver (WS2812SpiDriver.__init__) and its Strip (Strip.__init__) right
\* after construction, the handle open.
Constructed(n) ==
    /\ led_count = n
    /\ pixels = InitPixels(n)
    /\ brightness = RatOne
    /\ drv_buffer = InitBuffer(n)
    /\ clear_buffer = InitClearBuffer(n)
    /\ dev = OpenDev
    /\ last = NoCall

\* No effect and no main() is running.
IdleProc ==
    /\ pc = "api"
    /\ phase = 0
    /\ pattern = <<>>
    /\ iter = 0
    /\ idx = 0
    /\ step = 0
    /\ ramp = "up"
    /\ shows = 0
    /\ orig = RatOne

Init ==
    /\ \E n \in 0..MaxLeds : Constructed(n)
    /\ IdleProc

CallSetPixel == \E i \in Indices(led_count), c \in Colors : set_pixel_color(i, c)
CallSetAll == \E c \in Colors : set_all_pixels(c)
CallSetBrightness == \E b \in BrightInputs : set_brightness(b)
CallShow == show
CallClear == clear
CallNumPixels == num_pixels
CallGetBrightness == get_brightness
CallDriverWrite ==
    /\ \E d \in WriteInputs(led_count) : DriverWrite("write", <<>>, d)
    /\ UNCHANGED stripVars
CallDriverClear == DriverClear("driver_clear") /\ UNCHANGED stripVars

Next ==
    /\ pc = "api"
    /\ UNCHANGED <<led_count, procVars>>
    /\ \/ CallSetPixel
       \/ CallSetAll
       \/ CallSetBrightness
       \/ CallShow
       \/ CallClear
       \/ CallNumPixels
       \/ CallGetBrightness
       \/ CallDriverWrite
       \/ CallDriverClear

Spec == Init /\ [][Next]_vars

----------------------------------------------------------------------------
(* Strip.show as a function of the pixel buffer: every buffer of up to      *)
(* ShowLeds pixels over ShowColors (each reachable by set_pixel_color       *)
(* calls on a fresh Strip), then set_brightness and show calls.             *)

ShowColors == {Black, Red, Green, Blue, Color(1, 127, 255)}

ShowInit ==
    /\ \E n \in 0..ShowLeds :
        /\ led_count = n
        /\ pixels \in [1..n -> ShowColors]
        /\ brightness = RatOne
        /\ drv_buffer = InitBuffer(n)
        /\ clear_buffer = InitClearBuffer(n)
        /\ dev = OpenDev
        /\ last = NoCall
    /\ IdleProc

ShowNext ==
    /\ pc = "api"
    /\ UNCHANGED <<led_count, procVars>>
    /\ \/ CallSetBrightness
       \/ CallShow

ShowSpec == ShowInit /\ [][ShowNext]_vars

----------------------------------------------------------------------------
(* The effects. Each Strip call of an effect is one step; an error raised   *)
(* by a call leaves the effect (pc = "raised"), a normal end is             *)
(* pc = "returned".                                                         *)

AfterCall(next) == IF last'.result = "ok" THEN next ELSE "raised"

\* white_rotate: led_count = strip.num_pixels(), iterations = led_count * 5,
\* pattern = [white] + [black] * (led_count - 1)
rot_start ==
    /\ pc = "rot_start"
    /\ num_pixels
    /\ iter' = led_count * 5
    /\ pattern' = <<White>> \o [p \in 1..(led_count - 1) |-> Black]
    /\ shows' = 0
    /\ pc' = IF iter' > 0 THEN "rot_rotate" ELSE "returned"
    /\ UNCHANGED <<led_count, phase, idx, step, ramp, orig>>

\* Fault variant of rot_rotate: the pattern turned the other way
\* (last = pattern.pop(); pattern.insert(0, last)).
rot_rotate_right ==
    /\ pc = "rot_rotate"
    /\ pattern' = <<pattern[Len(pattern)]>> \o SubSeq(pattern, 1, Len(pattern) - 1)
    /\ idx' = 0
    /\ pc' = IF led_count > 0 THEN "rot_set" ELSE "rot_show"
    /\ UNCHANGED <<led_count, stripVars, driverVars, last, phase, iter, step, ramp, shows, orig>>

\* white_rotate: first = pattern.pop(0); pattern.append(first)
rot_rotate ==
    /\ pc = "rot_rotate"
    /\ pattern' = Append(Tail(pattern), Head(pattern))
    /\ idx' = 0
    /\ pc' = IF led_count > 0 THEN "rot_set" ELSE "rot_show"
    /\ UNCHANGED <<led_count, stripVars, driverVars, last, phase, iter, step, ramp, shows, orig>>

\* white_rotate: strip.set_pixel_color(i, pattern[i]) for i in range(led_count)
rot_set ==
    /\ pc = "rot_set"
    /\ set_pixel_color(idx, pattern[idx + 1])
    /\ idx' = idx + 1
    /\ pc' = AfterCall(IF idx' < led_count THEN "rot_set" ELSE "rot_show")
    /\ UNCHANGED <<led_count, phase, pattern, iter, step, ramp, shows, orig>>

\* white_rotate: strip.show()
rot_show ==
    /\ pc = "rot_show"
    /\ show
    /\ shows' = shows + 1
    /\ pc' = AfterCall("rot_sleep")
    /\ UNCHANGED <<led_count, phase, pattern, iter, idx, step, ramp, orig>>

\* white_rotate: time.sleep(delay), and the next iteration if any
rot_sleep ==
    /\ pc = "rot_sleep"
    /\ iter' = iter - 1
    /\ pc' = IF iter' > 0 THEN "rot_rotate" ELSE "returned"
    /\ UNCHANGED <<led_count, stripVars, driverVars, last, phase, pattern, idx, step, ramp, shows, orig>>

\* white_breathing: original_brightness = strip.get_brightness()
br_start ==
    /\ pc = "br_start"
    /\ get_brightness
    /\ orig' = brightness
    /\ iter' = BREATH_CYCLES
    /\ step' = 0
    /\ shows' = 0
    /\ ramp' = IF BREATH_CYCLES > 0 THEN "up" ELSE "restore"
    /\ pc' = "br_bright"
    /\ UNCHANGED <<led_count, phase, pattern, idx>>

\* The brightness white_breathing sets at `step` of a ramp: step / (steps - 1)
\* going up, 1 - step / (steps - 1) going down, original_brightness at the end.
BreathBrightness ==
    IF ramp = "up" THEN Rat(step, BREATH_STEPS - 1)
    ELSE IF ramp = "down" THEN Rat((BREATH_STEPS - 1) - step, BREATH_STEPS - 1)
    ELSE orig

\* white_breathing: strip.set_brightness(brightness)
br_bright ==
    /\ pc = "br_bright"
    /\ set_brightness(BreathBrightness)
    /\ pc' = "br_fill"
    /\ UNCHANGED <<led_count, phase, pattern, iter, idx, step, ramp, shows, orig>>

\* all_white_on, called by white_breathing: strip.set_all_pixels(white)
br_fill ==
    /\ pc = "br_fill"
    /\ set_all_pixels(White)
    /\ pc' = "br_show"
    /\ UNCHANGED <<led_count, phase, pattern, iter, idx, step, ramp, shows, orig>>

\* all_white_on, called by white_breathing: strip.show()
br_show ==
    /\ pc = "br_show"
    /\ show
    /\ shows' = shows + 1
    /\ pc' = AfterCall(IF ramp = "restore" THEN "returned" ELSE "br_sleep")
    /\ UNCHANGED <<led_count, phase, pattern, iter, idx, step, ramp, orig>>

\* white_breathing: time.sleep(delay), then the next step, ramp or cycle
br_sleep ==
    /\ pc = "br_sleep"
    /\ pc' = "br_bright"
    /\ IF step + 1 < BREATH_STEPS
       THEN step' = step + 1 /\ UNCHANGED <<ramp, iter>>
       ELSE /\ step' = 0
            /\ IF ramp = "up"
               THEN ramp' = "down" /\ UNCHANGED iter
               ELSE /\ iter' = iter - 1
                    /\ ramp' = IF iter' > 0 THEN "up" ELSE "restore"
    /\ UNCHANGED <<led_count, stripVars, driverVars, last, phase, pattern, idx, shows, orig>>

\* The colour of all_white_on, all_blue_on, all_green_on in main()'s sequence.
PhaseColor == IF phase = 4 THEN Blue ELSE IF phase = 5 THEN Green ELSE White

\* all_white_on, all_blue_on, all_green_on: strip.set_all_pixels(color)
on_fill ==
    /\ pc = "on_fill"
    /\ set_all_pixels(PhaseColor)
    /\ pc' = "on_show"
    /\ UNCHANGED <<led_count, phase, pattern, iter, idx, step, ramp, shows, orig>>

\* all_white_on, all_blue_on, all_green_on: strip.show()
on_show ==
    /\ pc = "on_show"
    /\ show
    /\ pc' = AfterCall("returned")
    /\ UNCHANGED <<led_count, phase, pattern, iter, idx, step, ramp, shows, orig>>

\* all_off: strip.clear()
off_clear ==
    /\ pc = "off_clear"
    /\ clear
    /\ pc' = AfterCall("returned")
    /\ UNCHANGED <<led_count, phase, pattern, iter, idx, step, ramp, shows, orig>>

----------------------------------------------------------------------------
(* white_rotate on its own, on a Strip of 0..RotLeds pixels that is fresh   *)
(* or was filled with a colour and dimmed before.                           *)

RotInit ==
    /\ \E n \in 0..RotLeds, c \in {Black, Red}, b \in {RatOne, <<1, 2>>} :
        /\ led_count = n
        /\ pixels = [p \in 1..n |-> c]
        /\ brightness = b
        /\ drv_buffer = InitBuffer(n)
        /\ clear_buffer = InitClearBuffer(n)
        /\ dev = OpenDev
        /\ last = NoCall
    /\ pc = "rot_start"
    /\ phase = 0
    /\ pattern = <<>>
    /\ iter = 0
    /\ idx = 0
    /\ step = 0
    /\ ramp = "up"
    /\ shows = 0
    /\ orig = RatOne

RotNext ==
    \/ rot_start
    \/ rot_rotate
    \/ rot_set
    \/ rot_show
    \/ rot_sleep

RotSpec == RotInit /\ [][RotNext]_vars

----------------------------------------------------------------------------
(* main(): the driver and the Strip are built, the seven effects run inside *)
(* try, the handle is closed in finally. pc = "done" is main() returning,   *)
(* pc = "failed" is an exception leaving main().                            *)

\* SpiDev.open and the attribute writes that configure the handle either
\* succeed or raise.
DevOutcomes == {"ok", "raise"}

\* WS2812SpiDriver.__init__: SpiDev() and self._device.open(bus, device)
main_open ==
    /\ pc = "main_open"
    /\ \E io \in DevOutcomes :
        IF io = "ok"
        THEN dev' = [dev EXCEPT !.state = "open"] /\ pc' = "main_config"
        ELSE dev' = dev /\ pc' = "failed"
    /\ UNCHANGED <<led_count, stripVars, drv_buffer, clear_buffer, last,
                   phase, pattern, iter, idx, step, ramp, shows, orig>>

\* WS2812SpiDriver.__init__: max_speed_hz, mode and lsbfirst are set, then
\* the two buffers are built
main_config ==
    /\ pc = "main_config"
    /\ \E io \in DevOutcomes :
        IF io = "ok"
        THEN /\ clear_buffer' = InitClearBuffer(led_count)
             /\ drv_buffer' = InitBuffer(led_count)
             /\ pc' = "main_strip"
        ELSE /\ UNCHANGED <<clear_buffer, drv_buffer>>
             /\ pc' = "failed"
    /\ UNCHANGED <<led_count, stripVars, dev, last,
                   phase, pattern, iter, idx, step, ramp, shows, orig>>

\* strip = driver.get_strip(): Strip.__init__; then try: is entered
main_strip ==
    /\ pc = "main_strip"
    /\ pixels' = InitPixels(led_count)
    /\ brightness' = RatOne
    /\ phase' = 1
    /\ pc' = "on_fill"
    /\ UNCHANGED <<led_count, driverVars, last, pattern, iter, idx, step, ramp, shows, orig>>

\* The first step of the effect main() runs as number p; after the seventh
\* the try block ends.
PhaseStart(p) ==
    IF p \in {1, 4, 5} THEN "on_fill"
    ELSE IF p \in {2, 7} THEN "off_clear"
    ELSE IF p = 3 THEN "rot_start"
    ELSE IF p = 6 THEN "br_start"
    ELSE "main_finally"

\* main(): an effect returned; time.sleep(2), print, the next effect
main_next ==
    /\ pc = "returned"
    /\ phase >= 1
    /\ phase' = phase + 1
    /\ pc' = PhaseStart(phase')
    /\ UNCHANGED <<led_count, stripVars, driverVars, last, pattern, iter, idx, step, ramp, shows, orig>>

\* main(): finally: driver._device.close(), reached from the end of the try
\* block or by an exception raised inside it
main_finally ==
    /\ pc \in {"main_finally", "raised"}
    /\ phase >= 1
    /\ dev' = [state |-> "closed", closes |-> dev.closes + 1]
    /\ pc' = IF pc = "raised" THEN "failed" ELSE "done"
    /\ UNCHANGED <<led_count, stripVars, drv_buffer, clear_buffer, last,
                   phase, pattern, iter, idx, step, ramp, shows, orig>>

MainInit ==
    /\ led_count = MAIN_LED_COUNT
    /\ pixels = <<>>
    /\ brightness = RatOne
    /\ drv_buffer = <<>>
    /\ clear_buffer = <<>>
    /\ dev = [state |-> "none", closes |-> 0]
    /\ last = NoCall
    /\ pc = "main_open"
    /\ phase = 0
    /\ pattern = <<>>
    /\ iter = 0
    /\ idx = 0
    /\ step = 0
    /\ ramp = "up"
    /\ shows = 0
    /\ orig = RatOne

MainNext ==
    \/ main_open
    \/ main_config
    \/ main_strip
    \/ main_next
    \/ main_finally
    \/ on_fill
    \/ on_show
    \/ off_clear
    \/ rot_start
    \/ rot_rotate
    \/ rot_set
    \/ rot_show
    \/ rot_sleep
    \/ br_start
    \/ br_bright
    \/ br_fill
    \/ br_show
    \/ br_sleep

MainSpec == MainInit /\ [][MainNext]_vars

----------------------------------------------------------------------------
(* The claims. *)

\* The integer q with q <= channel * b < q + 1, for a brightness b = <<num, den>>.
IsFloorOf(q, channel, b) == q * b[2] <= channel * b[1] /\ channel * b[1] < (q + 1) * b[2]

\* `row` is the (g, r, b) triple of colour c scaled by brightness b and floored.
IsScaledGRB(row, c, b) ==
    /\ Len(row) = 3
    /\ IsFloorOf(row[1], c.g, b)
    /\ IsFloorOf(row[2], c.r, b)
    /\ IsFloorOf(row[3], c.b, b)

InUnit(b) == ~RatLess(b, RatZero) /\ ~RatLess(RatOne, b)

\* C1: Strip.show() passes to the driver's write exactly one triple per
\* pixel, in pixel order, each (floor(g*b), floor(r*b), floor(b*b)) for the
\* stored brightness b in [0, 1] and channels in 0..255.
ShowPassesScaledGRB ==
    (last.op = "show" /\ InUnit(brightness)
        /\ \A p \in 1..Len(pixels) : {pixels[p].r, pixels[p].g, pixels[p].b} \subseteq 0..255)
    => /\ last.writes = 1
       /\ Len(last.data) = led_count
       /\ \A p \in 1..led_count : IsScaledGRB(last.data[p], pixels[p], brightness)

\* C1 witness: led_count = 3, pixels red, green, blue at brightness 1: the
\* driver receives [0,255,0, 255,0,0, 0,0,255].
ShowExampleShown ==
    /\ led_count = 3
    /\ pixels = <<Red, Green, Blue>>
    /\ brightness = RatOne
    /\ last.op = "show"
    /\ Ravel(last.data) = <<0, 255, 0, 255, 0, 0, 0, 0, 255>>

\* Bit (7 - k) of a byte, k = 0..7.
BitFromTop(byte, k) == (byte \div (2 ^ (7 - k))) % 2

\* C2: for an input of led_count * 3 bytes, the driver's write submits a
\* frame of 42 + led_count * 24 bytes whose first 42 bytes are 0 and whose
\* byte 42 + 8*j + k is ONE_SYMBOL if bit (7-k) of input byte j is 1 and
\* ZERO_SYMBOL otherwise, after any sequence of earlier calls.
WriteEncodesFrame ==
    (last.op \in {"write", "show"} /\ Len(Ravel(last.data)) = led_count * 3)
    => LET input == Ravel(last.data)
       IN  /\ last.tx = 1
           /\ Len(last.frame) = 42 + led_count * 24
           /\ \A p \in 1..42 : last.frame[p] = 0
           /\ \A j \in 0..(Len(input) - 1), k \in 0..7 :
                last.frame[42 + 8 * j + k + 1] =
                    IF BitFromTop(input[j + 1], k) = 1 THEN 252 ELSE 192

\* C2 witness: a direct write of two rows on a buffer that held another
\* frame before; byte 1 = 0b00000001 gives seven zero symbols and a one.
WriteEncodedAfterOthers ==
    /\ led_count = 2
    /\ last.op = "write"
    /\ last.data = << <<1, 128, 176>>, <<0, 255, 77>> >>
    /\ last.tx = 1
    /\ last.frame[43] = 192
    /\ last.frame[50] = 252
    /\ pixels # InitPixels(2)

\* C3 (as claimed): set_pixel_color(i, c) succeeds exactly when
\* 0 <= i < led_count, and fails with an index error for every other i.
SetPixelRangeChecked ==
    last.op = "set_pixel_color"
    => (last.result = "ok" <=> (0 <= last.args[1] /\ last.args[1] < led_count))

\* C4: data that does not hold led_count * 3 bytes makes the driver's write
\* fail before anything is submitted: no frame, the frame buffer as it was.
WriteRejectsWrongLength ==
    [][(last'.op = "write" /\ Len(Ravel(last'.data)) # led_count * 3)
        => /\ last'.result = "ValueError"
           /\ last'.tx = 0
           /\ last'.frame = <<>>
           /\ drv_buffer' = drv_buffer]_vars

\* C4 witness: a write of one row too many is rejected, the buffer holding
\* an earlier frame.
WrongLengthRejected ==
    /\ led_count = 2
    /\ last.op = "write"
    /\ Len(last.data) = 3
    /\ last.result = "ValueError"
    /\ drv_buffer # InitBuffer(2)

\* The ClearFrame of a strip of n LEDs: 42 zero bytes, then n * 24 bytes
\* ZERO_SYMBOL.
IsClearFrame(f, n) ==
    /\ Len(f) = 42 + n * 24
    /\ \A p \in 1..42 : f[p] = 0
    /\ \A p \in 43..(42 + n * 24) : f[p] = 192

\* C5: in every reachable state the driver's clear buffer is the value built
\* at construction, and every clear transmits it.
ClearFrameConstant ==
    /\ IsClearFrame(clear_buffer, led_count)
    /\ last.op \in {"clear", "driver_clear"} => last.frame = clear_buffer

\* C5 witness: a driver clear() after writes, pixel and brightness changes.
ClearAfterWrites ==
    /\ led_count = 2
    /\ last.op = "driver_clear"
    /\ drv_buffer # InitBuffer(2)
    /\ pixels # InitPixels(2)
    /\ brightness # RatOne

\* C6: Strip.clear() leaves every pixel (0,0,0) and the brightness as it
\* was, and makes exactly one transmission, of the precomputed ClearFrame,
\* without calling the driver's write or touching the transmit buffer.
StripClearEffect ==
    [][last'.op = "clear"
        => /\ Len(pixels') = led_count
           /\ \A p \in 1..led_count : pixels'[p] = Color(0, 0, 0)
           /\ brightness' = brightness
           /\ last'.tx = 1
           /\ IsClearFrame(last'.frame, led_count)
           /\ last'.writes = 0
           /\ drv_buffer' = drv_buffer]_vars

\* C6 witness: a clear() on a dimmed strip whose transmit buffer holds a
\* frame.
StripCleared ==
    /\ led_count = 2
    /\ last.op = "clear"
    /\ last.result = "ok"
    /\ brightness = <<1, 2>>
    /\ drv_buffer # InitBuffer(2)

\* min(max(b, 0), 1)
Clamped(b) == IF RatLess(b, RatZero) THEN RatZero ELSE IF RatLess(RatOne, b) THEN RatOne ELSE b

\* C7: the stored brightness is always in [0, 1]; set_brightness(b) stores
\* min(max(b, 0), 1); show() scales by the stored value; neither changes a
\* pixel.
BrightnessClamped ==
    /\ [](/\ InUnit(brightness)
          /\ last.op = "set_brightness" => brightness = Clamped(last.args[1])
          /\ last.op = "show" =>
                \A p \in 1..led_count : IsScaledGRB(last.data[p], pixels[p], Clamped(brightness)))
    /\ [][last'.op \in {"set_brightness", "show"} => pixels' = pixels]_vars

\* C7 witness: set_brightness(-0.5) on a strip with a lit pixel stores 0.0.
BrightnessClampedLow ==
    /\ last.op = "set_brightness"
    /\ last.args[1] = <<-1, 2>>
    /\ brightness = RatZero
    /\ \E p \in 1..led_count : pixels[p] # Black

\* C8 (as claimed): when main() has ended, a handle that was opened has been
\* closed, exactly once.
HandleClosedOnExit ==
    (pc \in {"done", "failed"} /\ dev.state # "none")
    => (dev.state = "closed" /\ dev.closes = 1)

\* white_rotate has just made its k-th show(), k = shows.
AfterRotShow == pc \in {"rot_sleep", "raised"} /\ last.op = "show" /\ shows >= 1

\* Exactly the pixel of index i (from 0) is white, the others are (0,0,0).
OnlyLit(i) ==
    \A p \in 1..led_count : pixels[p] = IF p = i + 1 THEN White ELSE Black

\* C9 (as claimed): with led_count = 4, at the k-th show() of white_rotate
\* the one lit pixel has index k mod 4.
RotateLitIndexForward ==
    (led_count = 4 /\ AfterRotShow) => OnlyLit(shows % 4)

\* C9 (amended): at the k-th show() of white_rotate the one lit pixel has
\* index (-k) mod led_count: 3, 2, 1, 0, 3, ... for led_count = 4.
RotateLitIndexBackward ==
    (led_count >= 1 /\ AfterRotShow) => OnlyLit((led_count - (shows % led_count)) % led_count)

\* C9 witness: led_count = 4, first show(): pixel 3 is lit.
RotateFirstShow ==
    /\ led_count = 4
    /\ AfterRotShow
    /\ shows = 1
    /\ pixels = <<Black, Black, Black, White>>

\* C10: set_pixel_color, set_all_pixels, set_brightness, get_brightness and
\* num_pixels submit nothing to the transport; show() and clear() each make
\* exactly one transmission attempt, also when it fails, and the failure is
\* the call's result.
TransmitOnlyOnShowClear ==
    /\ last.op \in {"set_pixel_color", "set_all_pixels", "set_brightness",
                    "get_brightness", "num_pixels"}
        => (last.tx = 0 /\ last.frame = <<>>)
    /\ last.op \in {"show", "clear"}
        => (last.tx = 1 /\ last.frame # <<>> /\ last.result \in {"ok", "TransportError"})

\* C10 witness: a clear() whose transmission failed: one attempt, the error
\* returned.
ClearFailedOnce ==
    /\ last.op = "clear"
    /\ last.result = "TransportError"
    /\ last.tx = 1

====
